---- MODULE Spec2Model ----
(***************************************************************************)
(* A model of the icon-captcha solver in src/src/lib.rs: get_positions,    *)
(* cropped, reflect_image, rotate and both variants of solve (sequential   *)
(* and the rayon one compiled under the feature "speed").                  *)
(*                                                                         *)
(* An image is a record [width, height, data]; data holds the RGBA pixels  *)
(* in raster order (row after row, x fastest), the order of               *)
(* ImageBuffer::enumerate_pixels and of GenericImageView::pixels.  A pixel *)
(* is the tuple <<r, g, b, a>>.                                            *)
(*                                                                         *)
(* u32 values are kept at their width.  TLC's integers are 32-bit signed,  *)
(* so a u32 is stored in two's complement: a word s >= 0 stands for s and  *)
(* a word s < 0 stands for s + 2^32.  Wrapping addition and subtraction    *)
(* of u32 are then the wrapping signed ones, and comparisons are ULt/ULe.  *)
(* An arithmetic overflow panics in a debug build and wraps in a release   *)
(* build; "build" is chosen in the initial state and both are explored.    *)
(*                                                                         *)
(* A run ends at pc = "panic" when a function panicked, and at             *)
(* pc = "wrapped" when a release build made a silhouette whose dimensions  *)
(* wrapped: that buffer has no pixel or about 2^32 rows, and what the      *)
(* image library does with it is not followed.                             *)
(***************************************************************************)
EXTENDS Integers, Sequences, FiniteSets, TLC

VARIABLES
    img,              \* IconCaptcha.img
    build,            \* "debug" (overflow checks on) or "release" (wrapping)
    pc,               \* position of the run
    panic_in,         \* "none", or the function that panicked
    icons_positions,  \* result of get_positions
    icons_cropped,    \* result of cropped
    icons_repeat,     \* solve: Vec<i32> of match counts (sequential)
    i, j, k,          \* solve: loop indices (0-based); k = 0 outside 'rotation
    imgs_rotate,      \* solve: the orbit of icons_cropped[j]
    diff,             \* solve: mismatch counter
    cmp,              \* the two images of the last pixel comparison
    p, before,        \* solve: the selection scan's result
    result,           \* the Icon solve returns (sequential)
    task_j, task_n,   \* speed solve: per task, next j and the local n
    par_repeat,       \* speed solve: the collected Vec<i32>
    par_done,         \* speed solve: the tasks whose closure returned, in order
    par_result,       \* the Icon the speed solve returns
    hist, ops         \* pure-function runs: the buffers so far, the calls made

vars == <<img, build, pc, panic_in, icons_positions, icons_cropped, icons_repeat,
          i, j, k, imgs_rotate, diff, cmp, p, before, result,
          task_j, task_n, par_repeat, par_done, par_result, hist, ops>>

segVars == <<icons_positions, icons_cropped>>
seqVars == <<icons_repeat, i, j, k, imgs_rotate, diff, cmp, p, before, result>>
parVars == <<task_j, task_n, par_repeat, par_done, par_result>>
labVars == <<hist, ops>>

-----------------------------------------------------------------------------
(* Bounds of the model *)

MaxWidth == 5        \* widest image of the segmentation runs
MaxHeight == 2       \* tallest image of the segmentation runs
MaxSpans == 3        \* most icons of a strip built from glyphs
MaxBufW == 2         \* widest buffer of the pure-function runs
MaxBufH == 2         \* tallest buffer of the pure-function runs

(* Program constants *)

CropHeight == 50     \* crop_imm(.., 50)
Sentinel == 100      \* let mut before = 100
OrbitSize == 8       \* rotate: 4 rotations and their 4 reflections

-----------------------------------------------------------------------------
(* u32 arithmetic *)

I32Max == (2^30 - 1) + 2^30
I32Min == (0 - I32Max) - 1

ULt(a, b) == IF (a >= 0) = (b >= 0) THEN a < b ELSE a >= 0
ULe(a, b) == a = b \/ ULt(a, b)
UMin(a, b) == IF ULt(a, b) THEN a ELSE b

WAdd(a, b) ==
    IF a >= 0 /\ b >= 0 /\ a > I32Max - b
        THEN (a - I32Max - 1) + (b - I32Max - 1)
    ELSE IF a < 0 /\ b < 0 /\ a < I32Min - b
        THEN (a + I32Max + 1) + (b + I32Max + 1)
    ELSE a + b
WNeg(a) == IF a = I32Min THEN I32Min ELSE 0 - a
WSub(a, b) == WAdd(a, WNeg(b))
\* unsigned division by two
UDiv2(a) == IF a >= 0 THEN a \div 2 ELSE ((a \div 2) + I32Max) + 1

\* a - b on u32 overflows exactly when a < b
SubOverflows(a, b) == ULt(a, b)

-----------------------------------------------------------------------------
(* Images *)

Transparent == <<0, 0, 0, 0>>            \* Rgba default of ImageBuffer::new
TransparentGray == <<64, 64, 64, 0>>
Black == <<0, 0, 0, 255>>
Gray == <<64, 64, 64, 255>>
White == <<240, 240, 240, 255>>
Mixed == <<64, 64, 240, 255>>

MakeImage(w, h, F(_, _)) ==
    [width |-> w, height |-> h,
     data |-> [n \in 1..(w * h) |-> F((n - 1) % w, (n - 1) \div w)]]

get_pixel(image, x, y) == image.data[y * image.width + x + 1]

Opaque(pixel) == pixel[4] # 0

-----------------------------------------------------------------------------
(* get_positions *)

IsGray(pixel) == pixel[1] = 64 /\ pixel[2] = 64 /\ pixel[3] = 64
IsWhite(pixel) == pixel[1] = 240 /\ pixel[2] = 240 /\ pixel[3] = 240

\* the loop for i in 0..width: the columns it pushes, in ascending order
\* (no pixel is both gray and white, so no column is pushed twice)
is_delimiter(image, col) ==
    IsGray(get_pixel(image, col, 0)) \/ IsWhite(get_pixel(image, col, 0))

delimiters(image) ==
    <<0>> \o SelectSeq([n \in 1..image.width |-> n - 1],
                       LAMBDA col : is_delimiter(image, col))
          \o <<image.width>>

\* the subtractions of one iteration of the loop over delimiter pairs
SpanOverflows(p_end, p_start) ==
    \/ SubOverflows(p_end, 1)
    \/ SubOverflows(WSub(p_end, 1), WAdd(p_start, 1))

center_of(p_end, p_start) ==
    WAdd(WAdd(UDiv2(WSub(WSub(p_end, 1), WAdd(p_start, 1))), p_start), 1)

\* The loop for i in 0..delimiter.len() - 1 (n is i + 1): one triple
\* <<end, start, center>> per pair of consecutive delimiters; a debug build
\* panics at the first pair whose subtractions overflow.
span_loop(delimiter, b) ==
    [panicked |-> b = "debug" /\ \E n \in 1..(Len(delimiter) - 1) :
                                     SpanOverflows(delimiter[n + 1], delimiter[n]),
     spans |-> [n \in 1..(Len(delimiter) - 1) |->
                   <<WSub(delimiter[n + 1], 1), WAdd(delimiter[n], 1),
                     center_of(delimiter[n + 1], delimiter[n])>>]]

make_icon(index, icon, height) ==
    [position |-> index + 1, start |-> icon[2], end |-> icon[1],
     center_x |-> icon[3], center_y |-> height \div 2]

get_positions(image, b) ==
    LET r == span_loop(delimiters(image), b)
    IN [panicked |-> r.panicked,
        icons |-> [n \in 1..Len(r.spans) |-> make_icon(n - 1, r.spans[n], image.height)]]

-----------------------------------------------------------------------------
(* cropped *)

\* DynamicImage::crop_imm: the rectangle is clamped to the image
crop_imm(image, x, y, width, height) ==
    LET x0 == UMin(x, image.width)
        y0 == UMin(y, image.height)
        h == UMin(height, image.height - y0)
        w == UMin(width, image.width - x0)
    IN MakeImage(w, h, LAMBDA cx, cy : get_pixel(image, x0 + cx, y0 + cy))

\* the first enumerate_pixels loop: the corners of the bounding box
RECURSIVE box_loop(_, _, _)
box_loop(image, n, box) ==
    IF n > Len(image.data) THEN box
    ELSE LET x == (n - 1) % image.width
             y == (n - 1) \div image.width
         IN IF Opaque(image.data[n])
            THEN box_loop(image, n + 1,
                     [min_x |-> IF x < box.min_x THEN x ELSE box.min_x,
                      min_y |-> IF y < box.min_y THEN y ELSE box.min_y,
                      max_x |-> IF x > box.max_x THEN x ELSE box.max_x,
                      max_y |-> IF y > box.max_y THEN y ELSE box.max_y])
            ELSE box_loop(image, n + 1, box)

bounding_box(image) ==
    box_loop(image, 1, [min_x |-> image.width, min_y |-> image.height,
                        max_x |-> 0, max_y |-> 0])

\* variant of new_extent: max - min, the + 1 forgotten
new_extent_exclusive(max, min) == WSub(max, min)
\* max - min + 1
new_extent(max, min) == WAdd(WSub(max, min), 1)

\* the second enumerate_pixels loop: the opaque pixels, moved by (min_x, min_y)
\* (new_img starts all Transparent; a pixel of it that no opaque source pixel
\* is put on stays so)
copy_pixel(image, box, nx, ny) ==
    LET x == nx + box.min_x
        y == ny + box.min_y
    IN IF x < image.width /\ y < image.height /\ Opaque(get_pixel(image, x, y))
       THEN get_pixel(image, x, y)
       ELSE Transparent

\* One icon of cropped, after crop_imm.  outcome is
\*   "ok"       the silhouette is image;
\*   "panic"    debug: max - min overflows; release: the wrapped dimensions
\*              overflow the buffer length in ImageBuffer::new;
\*   "wrapped"  release: a dimension wrapped and a degenerate buffer (no
\*              pixel, or one column of about 2^32 rows) was made; image
\*              carries its dimensions as u32 words and no data.
extract(image, b) ==
    LET box == bounding_box(image)
        over == SubOverflows(box.max_x, box.min_x) \/ SubOverflows(box.max_y, box.min_y)
        new_width == new_extent(box.max_x, box.min_x)
        new_height == new_extent(box.max_y, box.min_y)
    IN IF ~over
       THEN [outcome |-> "ok",
             image |-> MakeImage(new_width, new_height,
                                 LAMBDA nx, ny : copy_pixel(image, box, nx, ny))]
       ELSE IF b = "debug"
       THEN [outcome |-> "panic", image |-> MakeImage(0, 0, LAMBDA nx, ny : Transparent)]
       ELSE IF new_width < 0 /\ new_height < 0
       THEN [outcome |-> "panic", image |-> MakeImage(0, 0, LAMBDA nx, ny : Transparent)]
       ELSE [outcome |-> "wrapped",
             image |-> [width |-> new_width, height |-> new_height, data |-> <<>>]]

\* the crop of one icon: crop_imm(start, 0, end - start, 50)
crop_of(image, icon) ==
    crop_imm(image, icon.start, 0, WSub(icon.end, icon.start), CropHeight)

\* one iteration of the loop over icons_positions
crop_one(image, icon, b) ==
    IF b = "debug" /\ SubOverflows(icon.end, icon.start)
    THEN [outcome |-> "panic", image |-> MakeImage(0, 0, LAMBDA nx, ny : Transparent)]
    ELSE extract(crop_of(image, icon), b)

\* the loop over icons_positions: it ends at the first icon that panics
cropped(image, positions, b) ==
    LET each == [n \in 1..Len(positions) |-> crop_one(image, positions[n], b)]
    IN IF \E n \in 1..Len(positions) : each[n].outcome = "panic"
       THEN [outcome |-> "panic", icons |-> <<>>]
       ELSE [outcome |-> IF \E n \in 1..Len(positions) : each[n].outcome = "wrapped"
                         THEN "wrapped" ELSE "ok",
             icons |-> [n \in 1..Len(positions) |-> each[n].image]]

-----------------------------------------------------------------------------
(* reflect_image, rotate *)

\* variant of reflect_one: for x in 0..width - 1, the last column not copied
reflect_one_short(image) ==
    MakeImage(image.width, image.height,
              LAMBDA x, y : IF x = 0 THEN Transparent
                            ELSE get_pixel(image, image.width - 1 - x, y))
\* the body of the loop over imgs: pixel (x, y) is put at (width - 1 - x, y)
reflect_one(image) ==
    MakeImage(image.width, image.height,
              LAMBDA x, y : get_pixel(image, image.width - 1 - x, y))

reflect_image(imgs) == [n \in 1..Len(imgs) |-> reflect_one(imgs[n])]

\* DynamicImage::rotate90: (x, y) goes to (height - 1 - y, x)
rotate90(image) ==
    MakeImage(image.height, image.width,
              LAMBDA x, y : get_pixel(image, y, image.height - 1 - x))
\* DynamicImage::rotate180: (x, y) goes to (width - 1 - x, height - 1 - y)
rotate180(image) ==
    MakeImage(image.width, image.height,
              LAMBDA x, y : get_pixel(image, image.width - 1 - x, image.height - 1 - y))
\* DynamicImage::rotate270: (x, y) goes to (y, width - 1 - x)
rotate270(image) ==
    MakeImage(image.height, image.width,
              LAMBDA x, y : get_pixel(image, image.width - 1 - y, x))

rotate(image) ==
    LET img_rotate == <<image, rotate90(image), rotate180(image), rotate270(image)>>
    IN img_rotate \o reflect_image(img_rotate)

-----------------------------------------------------------------------------
(* solve: the comparison and the selection *)

\* for (p1, p2) in img.pixels().zip(ic.pixels()): the mismatches it counts
RECURSIVE zip_loop(_, _, _, _)
zip_loop(da, db, n, d) ==
    IF n > Len(da) \/ n > Len(db) THEN d
    ELSE zip_loop(da, db, n + 1, IF da[n][4] # db[n][4] THEN d + 1 ELSE d)

\* variant of inner_loop: a difference of the pixel counts counts as a mismatch
inner_loop_strict(a, b) ==
    zip_loop(a.data, b.data, 1, 0) + (IF Len(a.data) # Len(b.data) THEN 1 ELSE 0)
\* the zipped loop over all of img and ic: zip ends with the shorter sequence
inner_loop(a, b) == zip_loop(a.data, b.data, 1, 0)

\* variant of break_rotation: no break, the loop goes on with the next member
continue_rotation(kk) == kk + 1
\* break 'rotation: the loop over the orbit is left
break_rotation(kk) == OrbitSize + 1

\* variant of reset_diff: diff is not reset
keep_diff(d) == d
\* diff = 0 after a member that did not match
reset_diff(d) == 0

\* one iteration of the scan for (i, n) in icons_repeat.iter().enumerate():
\* if n < &before { before = *n; p = i; }   (here n is i + 1)
scan_step(repeat, n, st) ==
    IF repeat[n] < st.before THEN [p |-> n - 1, before |-> repeat[n]] ELSE st

\* the iterations lo..hi of the scan, in order, halved to keep the
\* evaluation shallow; the state after the first half is computed (its p, a
\* usize, is looked at) before the second half is entered
RECURSIVE scan_min(_, _, _, _)
scan_min(repeat, lo, hi, st) ==
    IF lo > hi THEN st
    ELSE IF lo = hi THEN scan_step(repeat, lo, st)
    ELSE LET mid == (lo + hi) \div 2
             half == scan_min(repeat, lo, mid, st)
         IN IF half.p >= 0 THEN scan_min(repeat, mid + 1, hi, half) ELSE half

select(repeat) == scan_min(repeat, 1, Len(repeat), [p |-> 0, before |-> Sentinel])

\* the pair after (ii, jj) in the two nested loops over n icons
next_i(ii, jj, n) == IF jj + 1 >= n THEN ii + 1 ELSE ii
next_j(ii, jj, n) == IF jj + 1 >= n THEN 0 ELSE jj + 1

\* the 'rotation loop run to its end: the count of icon a afterwards
RECURSIVE rotation_loop(_, _, _, _, _)
rotation_loop(a, orbit, kk, d, count) ==
    IF kk > OrbitSize THEN count
    ELSE LET d2 == d + inner_loop(a, orbit[kk])
         IN IF d2 = 0
            THEN rotation_loop(a, orbit, break_rotation(kk), d2, count + 1)
            ELSE rotation_loop(a, orbit, kk + 1, reset_diff(d2), count)

\* the increments of the loop over j for icon ii: an iteration other than
\* j = ii adds the count of its 'rotation loop, which is 1 (the loop breaks at
\* the first match) or 0
row_loop(icons, ii) ==
    Cardinality({jj \in 0..(Len(icons) - 1) :
                    ii # jj /\ rotation_loop(icons[ii + 1], rotate(icons[jj + 1]), 1, 0, 0) = 1})

\* speed solve: the 'rotation loop of the closure, TRUE when it breaks
RECURSIVE par_rotation(_, _, _, _)
par_rotation(x1, orbit, kk, d) ==
    IF kk > Len(orbit) THEN FALSE
    ELSE LET d2 == d + inner_loop(x1, orbit[kk])
         IN IF d2 = 0 THEN TRUE ELSE par_rotation(x1, orbit, kk + 1, 0)

\* variant of collect_slot: the values are stored in the order the tasks return
collect_by_completion(out, t, n, finished) == [out EXCEPT ![finished + 1] = n]
\* speed solve: collect() puts the value of the task with index t in slot t
collect_slot(out, t, n, finished) == [out EXCEPT ![t] = n]

-----------------------------------------------------------------------------
(* The images of the runs *)

Builds == {"debug", "release"}

SegPalette == {Transparent, TransparentGray, Black, Gray, White, Mixed}

\* the image of h rows that all equal row
SegImage(row, h) == MakeImage(Len(row), h, LAMBDA x, y : row[x + 1])

\* A glyph is the alpha pattern of one icon, a sequence of rows.
Square == <<<<1, 1>>, <<1, 1>>>>
Ell == <<<<1, 1>>, <<1, 0>>>>
EllTurned == <<<<0, 1>>, <<1, 1>>>>
Bar == <<<<1, 1>>, <<0, 0>>>>
Dot == <<<<1, 0>>, <<0, 0>>>>
Diag == <<<<1, 0>>, <<0, 1>>>>
Empty == <<<<0, 0>>, <<0, 0>>>>

Glyphs == {Ell, EllTurned, Bar, Diag, Empty}

\* The strip of the glyphs gs, all of one size: a blank column 0, then per
\* icon its glyph, a blank column and (but after the last icon) a delimiter
\* column, gray and white in turn.
strip_pixel(gs, x, y) ==
    LET gw == Len(gs[1][1])
        n == ((x - 1) \div (gw + 2)) + 1
        r == (x - 1) % (gw + 2)
    IN IF x = 0 \/ r = gw THEN Transparent
       ELSE IF r = gw + 1 THEN (IF n % 2 = 1 THEN Gray ELSE White)
       ELSE IF gs[n][y + 1][r + 1] = 1 THEN Black ELSE Transparent

StripImage(gs) ==
    MakeImage(Len(gs) * (Len(gs[1][1]) + 2), Len(gs[1]),
              LAMBDA x, y : strip_pixel(gs, x, y))

\* a strip of Sentinel + 2 icons: a dot, a diagonal, a bar, and dots
WideGlyphs ==
    [n \in 1..(Sentinel + 2) |-> IF n = 2 THEN Diag ELSE IF n = 3 THEN Bar ELSE Dot]
WideStrips == {WideGlyphs, [WideGlyphs EXCEPT ![1] = Square]}

BufPalette == {Transparent, TransparentGray, White}

\* the buffer of w columns with the pixels d in raster order
Buffer(w, d) == MakeImage(w, Len(d) \div w, LAMBDA x, y : d[y * w + x + 1])

-----------------------------------------------------------------------------
(* Initial states *)

NoImage == MakeImage(0, 0, LAMBDA x, y : Transparent)
NoIcon == [position |-> 0, start |-> 0, end |-> 0, center_x |-> 0, center_y |-> 0]
Unset == 0 - 1

Idle ==
    /\ panic_in = "none"
    /\ icons_positions = <<>>
    /\ icons_cropped = <<>>
    /\ icons_repeat = <<>>
    /\ i = 0 /\ j = 0 /\ k = 0
    /\ imgs_rotate = <<>>
    /\ diff = 0
    /\ cmp = <<>>
    /\ p = 0 /\ before = Sentinel
    /\ result = NoIcon
    /\ task_j = <<>> /\ task_n = <<>>
    /\ par_repeat = <<>> /\ par_done = <<>>
    /\ par_result = NoIcon

Start ==
    /\ build \in Builds
    /\ pc = "start"
    /\ hist = <<>> /\ ops = <<>>
    /\ Idle

\* every image of 1..MaxWidth columns and 1..MaxHeight rows that all equal row 0
InitSeg ==
    /\ \E w \in 1..MaxWidth, h \in 1..MaxHeight :
           \E row \in [1..w -> SegPalette] : img = SegImage(row, h)
    /\ Start

\* every strip of 1..MaxSpans glyphs
Init ==
    /\ \E n \in 1..MaxSpans : \E gs \in [1..n -> Glyphs] : img = StripImage(gs)
    /\ Start

InitWide ==
    /\ \E gs \in WideStrips : img = StripImage(gs)
    /\ Start

\* every buffer of 1..MaxBufW by 1..MaxBufH pixels
InitLab ==
    /\ img = NoImage
    /\ build \in Builds
    /\ pc = "lab"
    /\ \E w \in 1..MaxBufW, h \in 1..MaxBufH :
           \E d \in [1..(w * h) -> BufPalette] : hist = <<Buffer(w, d)>>
    /\ ops = <<>>
    /\ Idle

-----------------------------------------------------------------------------
(* solve, up to the scoring loops *)

GetPositions ==
    /\ pc = "start"
    /\ LET r == get_positions(img, build)
       IN /\ icons_positions' = IF r.panicked THEN <<>> ELSE r.icons
          /\ pc' = IF r.panicked THEN "panic" ELSE "positions"
          /\ panic_in' = IF r.panicked THEN "get_positions" ELSE panic_in
    /\ UNCHANGED <<img, build, icons_cropped, seqVars, parVars, labVars>>

Cropped ==
    /\ pc = "positions"
    /\ LET r == cropped(img, icons_positions, build)
       IN /\ icons_cropped' = r.icons
          /\ pc' = IF r.outcome = "ok" THEN "cropped" ELSE r.outcome
          /\ panic_in' = IF r.outcome = "panic" THEN "cropped" ELSE panic_in
    /\ UNCHANGED <<img, build, icons_positions, seqVars, parVars, labVars>>

\* let mut icons_repeat: Vec<i32> = vec![0; icons_positions.len()]
BeginScoring ==
    /\ pc = "cropped"
    /\ icons_repeat' = [n \in 1..Len(icons_positions) |-> 0]
    /\ i' = 0 /\ j' = 0 /\ k' = 0
    /\ pc' = "scoring"
    /\ UNCHANGED <<img, build, panic_in, segVars, imgs_rotate, diff, cmp, p, before,
                   result, parVars, labVars>>

(* solve, sequential: the scoring loops, one step per orbit member *)

\* if i == j { continue; }
Continue ==
    /\ pc = "scoring" /\ i < Len(icons_cropped) /\ i = j
    /\ i' = next_i(i, j, Len(icons_cropped))
    /\ j' = next_j(i, j, Len(icons_cropped))
    /\ UNCHANGED <<img, build, pc, panic_in, segVars, icons_repeat, k, imgs_rotate,
                   diff, cmp, p, before, result, parVars, labVars>>

\* let imgs_rotate = Self::rotate(&img2); let mut diff = 0;
Rotate ==
    /\ pc = "scoring" /\ i < Len(icons_cropped) /\ i # j
    /\ imgs_rotate' = rotate(icons_cropped[j + 1])
    /\ diff' = 0
    /\ k' = 1
    /\ pc' = "rotation"
    /\ UNCHANGED <<img, build, panic_in, segVars, icons_repeat, i, j, cmp, p, before,
                   result, parVars, labVars>>

\* the loop over the zipped pixels of img and the orbit member ic
InnerLoop ==
    /\ pc = "rotation"
    /\ diff' = diff + inner_loop(icons_cropped[i + 1], imgs_rotate[k])
    /\ cmp' = <<icons_cropped[i + 1], imgs_rotate[k]>>
    /\ pc' = "check"
    /\ UNCHANGED <<img, build, panic_in, segVars, icons_repeat, i, j, k, imgs_rotate,
                   p, before, result, parVars, labVars>>

\* the 'rotation loop goes on with member kk, or is over and so is pair (i, j)
Proceed(kk) ==
    IF kk > OrbitSize
    THEN /\ k' = 0
         /\ i' = next_i(i, j, Len(icons_cropped))
         /\ j' = next_j(i, j, Len(icons_cropped))
         /\ pc' = "scoring"
    ELSE /\ k' = kk
         /\ UNCHANGED <<i, j>>
         /\ pc' = "rotation"

\* if diff == 0 { icons_repeat[i] = icons_repeat[i] + 1; break 'rotation; }
Match ==
    /\ pc = "check" /\ diff = 0
    /\ icons_repeat' = [icons_repeat EXCEPT ![i + 1] = @ + 1]
    /\ Proceed(break_rotation(k))
    /\ UNCHANGED <<img, build, panic_in, segVars, imgs_rotate, diff, cmp, p, before,
                   result, parVars, labVars>>

\* diff = 0;
NoMatch ==
    /\ pc = "check" /\ diff # 0
    /\ diff' = reset_diff(diff)
    /\ Proceed(k + 1)
    /\ UNCHANGED <<img, build, panic_in, segVars, icons_repeat, imgs_rotate, cmp, p,
                   before, result, parVars, labVars>>

\* one whole iteration of the outer loop in a single step
ScoreRow ==
    /\ pc = "scoring" /\ i < Len(icons_cropped) /\ j = 0 /\ k = 0
    /\ icons_repeat' = [icons_repeat EXCEPT
                          ![i + 1] = @ + row_loop(icons_cropped, i)]
    /\ i' = i + 1
    /\ UNCHANGED <<img, build, pc, panic_in, segVars, j, k, imgs_rotate, diff, cmp, p,
                   before, result, parVars, labVars>>

\* the selection scan and icons_positions[p].clone()
Select ==
    /\ pc = "scoring" /\ i >= Len(icons_cropped)
    /\ LET s == select(icons_repeat)
       IN /\ p' = s.p
          /\ before' = s.before
          /\ result' = icons_positions[s.p + 1]
    /\ pc' = "selected"
    /\ UNCHANGED <<img, build, panic_in, segVars, icons_repeat, i, j, k, imgs_rotate,
                   diff, cmp, parVars, labVars>>

-----------------------------------------------------------------------------
(* solve under the feature "speed": one task per icon *)

NumTasks == Len(icons_cropped)

\* icons_cropped.par_iter().enumerate().map(..)
ParSpawn ==
    /\ pc = "selected"
    /\ task_j' = [t \in 1..Len(icons_cropped) |-> 0]
    /\ task_n' = [t \in 1..Len(icons_cropped) |-> 0]
    /\ par_repeat' = [t \in 1..Len(icons_cropped) |-> Unset]
    /\ par_done' = <<>>
    /\ pc' = "par"
    /\ UNCHANGED <<img, build, panic_in, segVars, seqVars, par_result, labVars>>

\* One iteration of the closure's loop over j, in the task of icon t; after
\* the last one the closure returns n, which collect() stores.  A task of a
\* strip of one icon has the one iteration j = 0.
ParStep(t) ==
    /\ pc = "par" /\ task_j[t] < NumTasks
    /\ LET index == t - 1
           jj == task_j[t]
           n == IF index # jj /\ par_rotation(icons_cropped[t],
                                              rotate(icons_cropped[jj + 1]), 1, 0)
                THEN task_n[t] + 1
                ELSE task_n[t]
       IN /\ task_n' = [task_n EXCEPT ![t] = n]
          /\ task_j' = [task_j EXCEPT ![t] = jj + 1]
          /\ IF jj + 1 = NumTasks
             THEN /\ par_repeat' = collect_slot(par_repeat, t, n, Len(par_done))
                  /\ par_done' = Append(par_done, t)
             ELSE UNCHANGED <<par_repeat, par_done>>
    /\ UNCHANGED <<img, build, pc, panic_in, segVars, seqVars, par_result, labVars>>

\* after collect(): the selection scan and icons_positions[p].clone()
ParSelect ==
    /\ pc = "par" /\ Len(par_done) = Len(icons_cropped)
    /\ par_result' = icons_positions[select(par_repeat).p + 1]
    /\ pc' = "done"
    /\ UNCHANGED <<img, build, panic_in, segVars, seqVars, task_j, task_n, par_repeat,
                   par_done, labVars>>

-----------------------------------------------------------------------------
(* extract and reflect_image applied to a buffer, two calls in a row *)

LabExtract ==
    /\ pc = "lab" /\ Len(ops) < 2
    /\ LET e == extract(hist[Len(hist)], build)
       IN /\ pc' = IF e.outcome = "ok" THEN pc ELSE e.outcome
          /\ panic_in' = IF e.outcome = "panic" THEN "cropped" ELSE panic_in
          /\ hist' = Append(hist, e.image)
    /\ ops' = Append(ops, "extract")
    /\ UNCHANGED <<img, build, segVars, seqVars, parVars>>

LabReflect ==
    /\ pc = "lab" /\ Len(ops) < 2
    /\ hist' = Append(hist, reflect_image(<<hist[Len(hist)]>>)[1])
    /\ ops' = Append(ops, "reflect")
    /\ UNCHANGED <<img, build, pc, panic_in, segVars, seqVars, parVars>>

-----------------------------------------------------------------------------
(* Specifications *)

\* both variants of solve on a strip of glyphs, the sequential one first
Next ==
    \/ GetPositions
    \/ Cropped
    \/ BeginScoring
    \/ Continue
    \/ Rotate
    \/ InnerLoop
    \/ Match
    \/ NoMatch
    \/ Select
    \/ ParSpawn
    \/ \E t \in 1..Len(icons_cropped) : ParStep(t)
    \/ ParSelect

Spec == Init /\ [][Next]_vars

\* get_positions and cropped on every small image
NextSeg == GetPositions \/ Cropped
SpecSeg == InitSeg /\ [][NextSeg]_vars

\* the sequential solve on a strip of more than Sentinel icons
NextWide == GetPositions \/ Cropped \/ BeginScoring \/ ScoreRow \/ Select
SpecWide == InitWide /\ [][NextWide]_vars

\* extraction and reflection on every small buffer
NextLab == LabExtract \/ LabReflect
SpecLab == InitLab /\ [][NextLab]_vars

-----------------------------------------------------------------------------
(* Vocabulary of the properties *)

NumIcons == Len(icons_cropped)

AfterGetPositions == pc # "start" /\ pc # "lab"
AfterCropped == pc \in {"cropped", "panic", "wrapped"} /\ panic_in # "get_positions"
InScoring == pc \in {"scoring", "rotation", "check"}
AfterScoring == pc \in {"selected", "par", "done"}
ScoringOver == (pc = "scoring" /\ i >= Len(icons_cropped)) \/ pc = "selected"

\* the columns of row 0 that hold a delimiter colour
DelimiterColumns == {x \in 0..(img.width - 1) : is_delimiter(img, x)}

\* column x lies in the span start..end of icon
InSpan(x, icon) == ULe(icon.start, x) /\ ULe(x, icon.end)

\* the crop region of icon holds no pixel of non-zero alpha
EmptyCrop(icon) ==
    LET c == crop_of(img, icon)
    IN \A n \in 1..Len(c.data) : c.data[n][4] = 0

\* the positions of the common prefix of two pixel sequences
Prefix(a, b) == 1..(IF Len(a.data) < Len(b.data) THEN Len(a.data) ELSE Len(b.data))

\* a and b have the same alpha at every position of the common prefix
AlphaEqual(a, b) == \A q \in Prefix(a, b) : a.data[q][4] = b.data[q][4]

\* the orbit members of silhouette m that compare equal to silhouette n
MatchingMembers(n, m) ==
    {kk \in 1..OrbitSize : AlphaEqual(icons_cropped[n], rotate(icons_cropped[m])[kk])}

\* the other silhouettes with a member of their orbit equal to silhouette n
Duplicates(n) == {m \in (1..NumIcons) \ {n} : MatchingMembers(n, m) # {}}

\* the least index among the spans of least count
FirstMinimum ==
    CHOOSE n \in 1..NumIcons :
        /\ \A m \in 1..NumIcons : icons_repeat[n] <= icons_repeat[m]
        /\ \A m \in 1..(n - 1) : icons_repeat[m] > icons_repeat[n]

Returned(t) == \E n \in 1..Len(par_done) : par_done[n] = t

-----------------------------------------------------------------------------
(* Properties *)

\* C1: for an image with k delimiter columns in row 0, wherever they are,
\* get_positions returns exactly k + 1 spans, pairwise disjoint, sorted
\* ascending by start, that cover every column of [0, width) but the
\* delimiter columns (column 0, the synthetic first delimiter, counted as one).
C1_SpansPartitionRow ==
    AfterGetPositions =>
        /\ panic_in # "get_positions"
        /\ Len(icons_positions) = Cardinality(DelimiterColumns) + 1
        /\ \A a, b \in 1..Len(icons_positions) :
               a < b => /\ ULt(icons_positions[a].start, icons_positions[b].start)
                        /\ ULt(icons_positions[a].end, icons_positions[b].start)
        /\ \A x \in 0..(img.width - 1) :
               \/ x \in DelimiterColumns \cup {0}
               \/ \E n \in 1..Len(icons_positions) : InSpan(x, icons_positions[n])

\* C2: every Icon get_positions returns has start < end and
\* start <= center_x <= end.
C2_IconOrdered ==
    AfterGetPositions =>
        \A n \in 1..Len(icons_positions) :
            /\ ULt(icons_positions[n].start, icons_positions[n].end)
            /\ ULe(icons_positions[n].start, icons_positions[n].center_x)
            /\ ULe(icons_positions[n].center_x, icons_positions[n].end)

\* C3: solve returns the Icon of the span of smallest index among the spans
\* whose count is the minimum of the counts.
C3_FirstMinimumSelected ==
    pc = "selected" => result = icons_positions[FirstMinimum]

\* C4: after scoring, the count of every span i is the number of other spans
\* j with at least one of the 8 members of the orbit of silhouette j equal
\* to silhouette i: one increment per pair however many members match, none
\* for the pair (i, i).
C4_CountIsDuplicates ==
    ScoringOver =>
        \A n \in 1..NumIcons : icons_repeat[n] = Cardinality(Duplicates(n))

\* C4 witness: scoring is over for a strip with a pair whose first orbit
\* member does not match while two later ones do, counted once.
C4_Witness ==
    /\ pc = "selected"
    /\ \E n, m \in 1..NumIcons :
           /\ n # m
           /\ 1 \notin MatchingMembers(n, m)
           /\ Cardinality(MatchingMembers(n, m)) >= 2
           /\ icons_repeat[n] = 1

\* C5: when the crop region of a span holds no pixel of non-zero alpha,
\* cropped ends in the error EmptySilhouette: it neither panics nor wraps nor
\* returns silhouettes.
C5_EmptySilhouetteError ==
    (AfterCropped /\ \E n \in 1..Len(icons_positions) : EmptyCrop(icons_positions[n]))
        => pc = "EmptySilhouette"

\* C6: the speed solve and the sequential solve give the same counts and the
\* same Icon, whatever the order in which the tasks run and return; while
\* the tasks run, the slot of a task holds its count once it has returned
\* and is untouched before.
C6_ParallelEqualsSequential ==
    /\ pc = "par" =>
           \A t \in 1..NumIcons :
               par_repeat[t] = IF Returned(t) THEN icons_repeat[t] ELSE Unset
    /\ pc = "done" => par_repeat = icons_repeat /\ par_result = result

\* C6 witness: both variants are over, the tasks returned out of index
\* order, and the counts are not all the same.
C6_Witness ==
    /\ pc = "done"
    /\ \E n \in 1..(Len(par_done) - 1) : par_done[n] > par_done[n + 1]
    /\ \E n, m \in 1..NumIcons : icons_repeat[n] # icons_repeat[m]

\* C7: extracting the bounding box of an extracted silhouette gives the
\* same width, height and pixels.
C7_ExtractIdempotent ==
    (pc = "lab" /\ ops = <<"extract", "extract">>) => hist[3] = hist[2]

\* C7 witness: two extractions were made and the first one changed the buffer.
C7_Witness ==
    /\ pc = "lab" /\ ops = <<"extract", "extract">>
    /\ hist[2] # hist[1]
    /\ hist[2].width < hist[1].width

\* C8: reflect_image applied twice gives back the buffer, pixel for pixel.
C8_ReflectTwice ==
    ops = <<"reflect", "reflect">> => hist[3] = hist[1]

\* C8 witness: two reflections were made and the first one changed the buffer.
C8_Witness ==
    ops = <<"reflect", "reflect">> /\ hist[2] # hist[1]

\* C9: the comparison of a silhouette with an orbit member walks both pixel
\* sequences in lockstep and counts the positions of the common prefix whose
\* alphas differ; it finds them equal iff there is none, whatever the two
\* pixel counts.
C9_ComparePrefix ==
    pc = "check" =>
        /\ diff = Cardinality({q \in Prefix(cmp[1], cmp[2]) :
                                   cmp[1].data[q][4] # cmp[2].data[q][4]})
        /\ (diff = 0) = AlphaEqual(cmp[1], cmp[2])

\* C9 witness: two buffers of different pixel counts compared equal.
C9_Witness ==
    /\ pc = "check" /\ diff = 0
    /\ Len(cmp[1].data) # Len(cmp[2].data)

\* C10: during and after the scoring loops every count lies in 0..n-1 for n
\* spans; so for n <= 100 the scan finds a count below its initial 100 and
\* sets the selected index.
C10_CountsBounded ==
    /\ (InScoring \/ AfterScoring) =>
           \A n \in 1..NumIcons : icons_repeat[n] \in 0..(NumIcons - 1)
    /\ (AfterScoring /\ NumIcons <= Sentinel) =>
           /\ before < Sentinel
           /\ before = icons_repeat[p + 1]

\* C10 witness: the scan chose an index other than the default for a strip
\* in which some span matches every other span.
C10_Witness ==
    /\ pc = "selected"
    /\ p > 0
    /\ \E n \in 1..NumIcons : icons_repeat[n] = NumIcons - 1

====
